---- MODULE Spec2Model ----
(***************************************************************************)
(* Model of scripts/download-historical-data.py: the historical data       *)
(* updater.  One run of update_crypto_data walks CRYPTO_SYMBOLS in order;  *)
(* for each symbol it loads the snapshot file, chooses NOOP / DELTA / FULL,*)
(* fetches from the provider, merges or builds the snapshot, writes it,    *)
(* and after the loop writes index.json.  Runs repeat while the clock      *)
(* advances.                                                               *)
(*                                                                         *)
(* Time is kept as the code keeps it: the clock is POSIX seconds, the      *)
(* stored timestamps are milliseconds, and calendar dates are taken in the *)
(* machine's local zone (datetime.fromtimestamp / datetime.now).           *)
(***************************************************************************)
EXTENDS Integers, Sequences, FiniteSets, TLC

(* ---- bounds of the model ---------------------------------------------- *)
\* how many symbols of CRYPTO_SYMBOLS (a prefix of the list) a run processes
NumAssets == 2
\* the clock runs over the UTC days 0 .. MaxDay
MaxDay == 2
\* most entries a snapshot's prices list grows to
MaxLen == 3

(* ---- program constants ------------------------------------------------ *)
ALL_SYMBOLS ==
    <<
      "BTC-USD", "ETH-USD", "BNB-USD", "XRP-USD", "SOL-USD", "ADA-USD",
      "DOGE-USD", "TRX-USD", "LINK-USD", "DOT-USD", "LTC-USD", "BCH-USD",
      "XLM-USD", "ETC-USD", "XMR-USD", "AVAX-USD", "SHIB-USD", "ATOM-USD",
      "NEAR-USD", "ALGO-USD", "VET-USD", "ICP-USD", "HBAR-USD", "QNT-USD",
      "FIL-USD", "AAVE-USD"
    >>

CRYPTO_SYMBOLS == SubSeq(ALL_SYMBOLS, 1, NumAssets)

SymbolSet == {ALL_SYMBOLS[k] : k \in 1..Len(ALL_SYMBOLS)}

\* the symbols of a list, and their crypto ids
SymbolsOf(list) == {list[k] : k \in 1..Len(list)}

SYMBOL_TO_ID ==
    [s \in SymbolSet |->
        CASE s = "BTC-USD" -> "bitcoin"
          [] s = "ETH-USD" -> "ethereum"
          [] s = "BNB-USD" -> "binancecoin"
          [] s = "XRP-USD" -> "xrp"
          [] s = "SOL-USD" -> "solana"
          [] s = "ADA-USD" -> "cardano"
          [] s = "DOGE-USD" -> "dogecoin"
          [] s = "TRX-USD" -> "tron"
          [] s = "LINK-USD" -> "chainlink"
          [] s = "DOT-USD" -> "polkadot"
          [] s = "LTC-USD" -> "litecoin"
          [] s = "BCH-USD" -> "bitcoin-cash"
          [] s = "XLM-USD" -> "stellar"
          [] s = "ETC-USD" -> "ethereum-classic"
          [] s = "XMR-USD" -> "monero"
          [] s = "AVAX-USD" -> "avalanche"
          [] s = "SHIB-USD" -> "shiba-inu"
          [] s = "ATOM-USD" -> "cosmos"
          [] s = "NEAR-USD" -> "near"
          [] s = "ALGO-USD" -> "algorand"
          [] s = "VET-USD" -> "vechain"
          [] s = "ICP-USD" -> "internet-computer"
          [] s = "HBAR-USD" -> "hedera"
          [] s = "QNT-USD" -> "quant"
          [] s = "FIL-USD" -> "filecoin"
          [] s = "AAVE-USD" -> "aave"]

\* symbol.replace('-USD', '')
SymbolName ==
    [s \in SymbolSet |->
        CASE s = "BTC-USD" -> "BTC"
          [] s = "ETH-USD" -> "ETH"
          [] s = "BNB-USD" -> "BNB"
          [] s = "XRP-USD" -> "XRP"
          [] s = "SOL-USD" -> "SOL"
          [] s = "ADA-USD" -> "ADA"
          [] s = "DOGE-USD" -> "DOGE"
          [] s = "TRX-USD" -> "TRX"
          [] s = "LINK-USD" -> "LINK"
          [] s = "DOT-USD" -> "DOT"
          [] s = "LTC-USD" -> "LTC"
          [] s = "BCH-USD" -> "BCH"
          [] s = "XLM-USD" -> "XLM"
          [] s = "ETC-USD" -> "ETC"
          [] s = "XMR-USD" -> "XMR"
          [] s = "AVAX-USD" -> "AVAX"
          [] s = "SHIB-USD" -> "SHIB"
          [] s = "ATOM-USD" -> "ATOM"
          [] s = "NEAR-USD" -> "NEAR"
          [] s = "ALGO-USD" -> "ALGO"
          [] s = "VET-USD" -> "VET"
          [] s = "ICP-USD" -> "ICP"
          [] s = "HBAR-USD" -> "HBAR"
          [] s = "QNT-USD" -> "QNT"
          [] s = "FIL-USD" -> "FIL"
          [] s = "AAVE-USD" -> "AAVE"]

IdsOf(list) == {SYMBOL_TO_ID[s] : s \in SymbolsOf(list)}

SecondsPerDay == 24 * 60 * 60

\* the UTC offsets (seconds east of UTC) of the machines the script runs on
TzOffsets == {0 - 5 * 3600, 0, 13 * 3600}

\* the clock advances in half days
ClockStep == SecondsPerDay \div 2

\* Python's None, and a present value x, as the values of an optional
None == <<>>

Some(x) == <<x>>

(* ---- state ------------------------------------------------------------ *)
VARIABLES
    symbols,             \* the list the for loop walks: a prefix of CRYPTO_SYMBOLS
    files,               \* public/data/<crypto_id>.json, by crypto id
    index,               \* public/data/index.json
    now,                 \* the clock, POSIX seconds
    tz,                  \* the machine's UTC offset, seconds
    pc,                  \* "idle", "loop" (inside the for loop), "done"
    i,                   \* position of the for loop in CRYPTO_SYMBOLS
    successful_updates,  \* list of symbols
    failed_updates,      \* list of symbols
    log                  \* per symbol, this run: what its iteration read and did

vars ==
    <<symbols, files, index, now, tz, pc, i, successful_updates, failed_updates,
      log>>

(* ---- the provider (yfinance) ------------------------------------------ *)
SymbolIndex(symbol) == CHOOSE k \in 1..Len(ALL_SYMBOLS) : ALL_SYMBOLS[k] = symbol

\* the market's daily bar of a symbol for a UTC day: row['Close'], row['Volume'];
\* the volume of some bars is NaN
Close(symbol, day) == 100 * SymbolIndex(symbol) + day

Volume(symbol, day) ==
    IF (SymbolIndex(symbol) + day) % 2 = 0 THEN None ELSE Some(1000 + day)

HistRow(symbol, day) ==
    [date |-> day, Close |-> Close(symbol, day), Volume |-> Volume(symbol, day)]

\* the UTC day the clock is in: the latest daily bar that can exist
UtcDay(t) == t \div SecondsPerDay

\* a DataFrame of daily rows for the days a .. b, ascending
HistRows(symbol, a, b) == [k \in 1..(b - a + 1) |-> HistRow(symbol, a + k - 1)]

\* what ticker.history can return at time t for a request whose answer may
\* begin on any of the days first_days: no rows, or the daily rows from such a
\* day up to a latest bar, which is today's or an earlier one
Histories(symbol, t, first_days) ==
    {<<>>} \cup
    {HistRows(symbol, w[1], w[2]) :
        w \in {v \in first_days \X (0..UtcDay(t)) : v[1] <= v[2]}}

\* a call of ticker.history: it raises, or returns a DataFrame
FetchOutcomes(symbol, t, first_days) ==
    {[raised |-> TRUE, hist |-> <<>>]} \cup
    {[raised |-> FALSE, hist |-> h] : h \in Histories(symbol, t, first_days)}

\* history(period="max"): the whole history, which begins on day 0
MaxPeriod == {0}

\* history(start=start_date): bars from the calendar day of start_date on
\* (`start` is inclusive, and a naive datetime is read in the exchange's
\* zone, UTC); the first bar returned is that day's or a later one
FromStart(start_date, t) == (start_date \div SecondsPerDay)..UtcDay(t)

NoFetch == [raised |-> FALSE, hist |-> <<>>]

(* ---- dates ------------------------------------------------------------ *)
\* int(date.timestamp() * 1000) of a row's date (midnight UTC of its day)
TimestampMs(day) == day * SecondsPerDay * 1000

\* datetime.fromtimestamp(ms / 1000): the naive local datetime, in seconds
FromTimestamp(ms, offset) == (ms \div 1000) + offset

\* datetime.now(): the naive local datetime, in seconds
DatetimeNow(t, offset) == t + offset

\* .date() of a naive datetime: the calendar day it falls in
DateOf(naive) == naive \div SecondsPerDay

\* x + timedelta(days=1)
PlusOneDay(naive) == naive + SecondsPerDay

(* ---- snapshot files --------------------------------------------------- *)
AbsentFile == [kind |-> "absent", json |-> None]

\* a file json.load cannot parse (a write that was cut short)
UnparseableFile == [kind |-> "unparseable", json |-> None]

JsonFile(data) == [kind |-> "json", json |-> Some(data)]

\* a parseable snapshot whose prices list is empty
EmptyPricesData(symbol) ==
    [symbol |-> symbol, crypto_id |-> SYMBOL_TO_ID[symbol],
     name |-> SymbolName[symbol], last_updated |-> 0, data_points |-> 0,
     earliest_date |-> 0, latest_date |-> 0,
     prices |-> <<>>, total_volumes |-> <<>>]

load_existing_data(crypto_id) ==
    IF files[crypto_id].kind # "absent"
    THEN IF files[crypto_id].kind = "json" THEN files[crypto_id].json ELSE None
    ELSE None

\* Python truth of what load_existing_data returned (a snapshot dict is
\* never empty)
Truthy(existing_data) == existing_data # None

get_last_date_from_data(data, offset) ==
    IF data = None \/ Len(data[1].prices) = 0
    THEN None
    ELSE Some(FromTimestamp(data[1].prices[Len(data[1].prices)][1], offset))

\* (today - last_data_date).days
DaysSince(last_date, t, offset) ==
    DateOf(DatetimeNow(t, offset)) - DateOf(last_date[1])

\* the up-to-date test also taking yesterday's data as current
IsUpToDateWithinADay(days_since) == days_since <= 1

IsUpToDate(days_since) == days_since = 0

StartDate(last_date) == PlusOneDay(last_date[1])

\* float(row['Volume']) if pd.notna(row['Volume']) else 0
VolumeOf(row) == IF row.Volume # None THEN row.Volume[1] ELSE 0

PriceEntry(row) == <<TimestampMs(row.date), row.Close>>

VolumeEntry(row) == <<TimestampMs(row.date), VolumeOf(row)>>

RECURSIVE AppendRows(_, _)
\* the loop of lines 105-111: each row is appended to both lists
AppendRows(data, new_hist) ==
    IF Len(new_hist) = 0
    THEN data
    ELSE AppendRows(
            [data EXCEPT !.prices = Append(@, PriceEntry(Head(new_hist))),
                         !.total_volumes = Append(@, VolumeEntry(Head(new_hist)))],
            Tail(new_hist))

\* data_points left as it was loaded
DataPointsStale(data) == data.data_points

DataPoints(data) == Len(data.prices)

\* the DELTA merge rebuilding the lists from the new rows alone
DeltaMergeFromNewRows(existing_data, new_hist, t) ==
    LET appended == AppendRows([existing_data EXCEPT !.prices = <<>>,
                                                     !.total_volumes = <<>>],
                               new_hist)
    IN  [appended EXCEPT !.last_updated = t,
                         !.data_points = Len(appended.prices),
                         !.latest_date = new_hist[Len(new_hist)].date]

\* the DELTA merge: append, then refresh the metadata
DeltaMerge(existing_data, new_hist, t) ==
    LET appended == AppendRows(existing_data, new_hist)
    IN  [appended EXCEPT !.last_updated = t,
                         !.data_points = DataPoints(appended),
                         !.latest_date = new_hist[Len(new_hist)].date]

\* the full structure with the conversion loop starting at the second row
create_full_skipping_first_row(symbol, hist, t) ==
    AppendRows(
        [symbol |-> symbol, crypto_id |-> SYMBOL_TO_ID[symbol],
         name |-> SymbolName[symbol], last_updated |-> t,
         data_points |-> Len(hist),
         earliest_date |-> hist[1].date, latest_date |-> hist[Len(hist)].date,
         prices |-> <<>>, total_volumes |-> <<>>],
        Tail(hist))

create_full_data_structure(symbol, hist, t) ==
    AppendRows(
        [symbol |-> symbol, crypto_id |-> SYMBOL_TO_ID[symbol],
         name |-> SymbolName[symbol], last_updated |-> t,
         data_points |-> Len(hist),
         earliest_date |-> hist[1].date, latest_date |-> hist[Len(hist)].date,
         prices |-> <<>>, total_volumes |-> <<>>],
        hist)

\* len(new_hist) == 0, line 99
NoNewData(new_hist) == Len(new_hist) = 0

\* len(hist) == 0, line 133
NoDataAvailable(hist) == Len(hist) = 0

\* hist.index[0] of an empty DataFrame raises IndexError
CreateFullRaises(hist) == Len(hist) = 0

(* ---- the index -------------------------------------------------------- *)
NoIndex == [written |-> FALSE, last_updated |-> 0, total_tokens |-> 0,
            available_tokens |-> <<>>, data_source |-> ""]

\* the index listing every symbol of the list, whatever its outcome
AvailableTokensOfWholeList(successful) ==
    [k \in 1..Len(symbols) |-> SYMBOL_TO_ID[symbols[k]]]

AvailableTokens(successful) ==
    [k \in 1..Len(successful) |-> SYMBOL_TO_ID[successful[k]]]

IndexData(successful, t) ==
    [written |-> TRUE, last_updated |-> t, total_tokens |-> Len(successful),
     available_tokens |-> AvailableTokens(successful),
     data_source |-> "Yahoo Finance"]

(* ---- Init ------------------------------------------------------------- *)
\* the record of a symbol the loop has not reached: state PENDING
Pending ==
    [state |-> "PENDING", mode |-> "NONE", before |-> AbsentFile,
     out |-> NoFetch, fetches |-> 0, days_since |-> None, start_date |-> None,
     at |-> 0]

\* the record of an iteration: the terminal state, the mode, the file as it was
\* loaded, the provider's answer, and the dates the decision was taken on
Processed(symbol, state, mode, out, ds, sd) ==
    [state |-> state, mode |-> mode, before |-> files[SYMBOL_TO_ID[symbol]],
     out |-> out, fetches |-> IF mode = "NOOP" THEN 0 ELSE 1,
     days_since |-> ds, start_date |-> sd, at |-> now]

InitialFiles(symbol) ==
    {AbsentFile, UnparseableFile, JsonFile(EmptyPricesData(symbol))}

\* the state before the first run: the list, the files found, the clock
Start(list, found, t) ==
    /\ symbols = list
    /\ files \in {f \in [IdsOf(list) -> UNION {found[s] : s \in SymbolsOf(list)}] :
                    \A s \in SymbolsOf(list) : f[SYMBOL_TO_ID[s]] \in found[s]}
    /\ index = NoIndex
    /\ now = t
    /\ tz \in TzOffsets
    /\ pc = "idle"
    /\ i = 1
    /\ successful_updates = <<>>
    /\ failed_updates = <<>>
    /\ log = [s \in SymbolsOf(list) |-> Pending]

\* one symbol, from the first day of the clock on
Init ==
    Start(SubSeq(CRYPTO_SYMBOLS, 1, 1),
          [s \in SymbolSet |-> InitialFiles(s)], 0)

\* the snapshots an earlier full download left: the history up to some day b,
\* written on that day
EarlierSnapshots(symbol) ==
    {JsonFile(create_full_data_structure(symbol, HistRows(symbol, 0, b),
                                         b * SecondsPerDay)) : b \in 0..MaxDay}

\* the whole list, at noon of the last day of the clock
RunInit ==
    Start(CRYPTO_SYMBOLS,
          [s \in SymbolSet |-> InitialFiles(s) \cup EarlierSnapshots(s)],
          MaxDay * SecondsPerDay + ClockStep)

(* ---- the run ---------------------------------------------------------- *)
\* update_crypto_data is entered: lines 57-68
StartRun ==
    /\ pc \in {"idle", "done"}
    /\ pc' = "loop"
    /\ i' = 1
    /\ successful_updates' = <<>>
    /\ failed_updates' = <<>>
    /\ log' = [s \in SymbolsOf(symbols) |-> Pending]
    /\ UNCHANGED <<symbols, files, index, now, tz>>

InLoop == pc = "loop" /\ i <= Len(symbols)

\* a success without new data that falls through to the save, rewriting the
\* loaded snapshot with a fresh last_updated
EndSuccessRewrite(symbol, mode, out, ds, sd) ==
    /\ files' = [files EXCEPT ![SYMBOL_TO_ID[symbol]] =
                    JsonFile([@.json[1] EXCEPT !.last_updated = now])]
    /\ successful_updates' = Append(successful_updates, symbol)
    /\ log' = [log EXCEPT ![symbol] = Processed(symbol, "UP_TO_DATE", mode, out, ds, sd)]
    /\ UNCHANGED failed_updates

\* a success without new data recorded in failed_updates
EndEmptyCountedFailed(symbol, mode, out, ds, sd) ==
    /\ failed_updates' = Append(failed_updates, symbol)
    /\ log' = [log EXCEPT ![symbol] = Processed(symbol, "FAILED", mode, out, ds, sd)]
    /\ UNCHANGED <<files, successful_updates>>

\* a failure recorded in successful_updates
EndFailedCountedSuccessful(symbol, mode, out, ds, sd) ==
    /\ successful_updates' = Append(successful_updates, symbol)
    /\ log' = [log EXCEPT ![symbol] = Processed(symbol, "FAILED", mode, out, ds, sd)]
    /\ UNCHANGED <<files, failed_updates>>

\* the ways one iteration of the for loop ends
\* `continue` after successful_updates.append(symbol): lines 89-90, 101-102
EndSuccessNoWrite(symbol, mode, out, ds, sd) ==
    /\ successful_updates' = Append(successful_updates, symbol)
    /\ log' = [log EXCEPT ![symbol] = Processed(symbol, "UP_TO_DATE", mode, out, ds, sd)]
    /\ UNCHANGED <<files, failed_updates>>

\* the save of lines 141-146
EndSaved(symbol, mode, out, ds, sd, data_to_save) ==
    /\ files' = [files EXCEPT ![SYMBOL_TO_ID[symbol]] = JsonFile(data_to_save)]
    /\ successful_updates' = Append(successful_updates, symbol)
    /\ log' = [log EXCEPT ![symbol] = Processed(symbol, "UPDATED", mode, out, ds, sd)]
    /\ UNCHANGED failed_updates

\* failed_updates.append(symbol): lines 134-136 and the except of 148-150
EndFailed(symbol, mode, out, ds, sd) ==
    /\ failed_updates' = Append(failed_updates, symbol)
    /\ log' = [log EXCEPT ![symbol] = Processed(symbol, "FAILED", mode, out, ds, sd)]
    /\ UNCHANGED <<files, successful_updates>>

\* lines 78-90: the snapshot's last observation is dated today
UpToDate ==
    /\ InLoop
    /\ LET symbol == symbols[i]
           existing_data == load_existing_data(SYMBOL_TO_ID[symbol])
           last_date == get_last_date_from_data(existing_data, tz)
       IN  /\ Truthy(existing_data)
           /\ last_date # None
           /\ IsUpToDate(DaysSince(last_date, now, tz))
           /\ EndSuccessNoWrite(symbol, "NOOP", NoFetch,
                                Some(DaysSince(last_date, now, tz)), None)
    /\ i' = i + 1
    /\ UNCHANGED <<symbols, index, now, tz, pc>>

\* lines 92-119: fetch the days after the last observation and append them
DeltaUpdate ==
    /\ InLoop
    /\ LET symbol == symbols[i]
           existing_data == load_existing_data(SYMBOL_TO_ID[symbol])
           last_date == get_last_date_from_data(existing_data, tz)
       IN  /\ Truthy(existing_data)
           /\ last_date # None
           /\ ~IsUpToDate(DaysSince(last_date, now, tz))
           /\ \E out \in FetchOutcomes(symbol, now, FromStart(StartDate(last_date), now)) :
                /\ Len(existing_data[1].prices) + Len(out.hist) <= MaxLen
                /\ LET ds == Some(DaysSince(last_date, now, tz))
                       sd == Some(StartDate(last_date))
                   IN  IF out.raised
                       THEN EndFailed(symbol, "DELTA", out, ds, sd)
                       ELSE IF NoNewData(out.hist)
                       THEN EndSuccessNoWrite(symbol, "DELTA", out, ds, sd)
                       ELSE EndSaved(symbol, "DELTA", out, ds, sd,
                                     DeltaMerge(existing_data[1], out.hist, now))
    /\ i' = i + 1
    /\ UNCHANGED <<symbols, index, now, tz, pc>>

\* lines 120-126: a snapshot was loaded but it has no last observation
CorruptFullDownload ==
    /\ InLoop
    /\ LET symbol == symbols[i]
           existing_data == load_existing_data(SYMBOL_TO_ID[symbol])
           last_date == get_last_date_from_data(existing_data, tz)
       IN  /\ Truthy(existing_data)
           /\ last_date = None
           /\ \E out \in FetchOutcomes(symbol, now, MaxPeriod) :
                IF out.raised \/ CreateFullRaises(out.hist)
                THEN EndFailed(symbol, "FULL", out, None, None)
                ELSE EndSaved(symbol, "FULL", out, None, None,
                              create_full_data_structure(symbol, out.hist, now))
    /\ i' = i + 1
    /\ UNCHANGED <<symbols, index, now, tz, pc>>

\* lines 127-139: nothing could be loaded
FullDownload ==
    /\ InLoop
    /\ LET symbol == symbols[i]
           existing_data == load_existing_data(SYMBOL_TO_ID[symbol])
       IN  /\ ~Truthy(existing_data)
           /\ \E out \in FetchOutcomes(symbol, now, MaxPeriod) :
                IF out.raised \/ NoDataAvailable(out.hist)
                THEN EndFailed(symbol, "FULL", out, None, None)
                ELSE EndSaved(symbol, "FULL", out, None, None,
                              create_full_data_structure(symbol, out.hist, now))
    /\ i' = i + 1
    /\ UNCHANGED <<symbols, index, now, tz, pc>>

\* the index written only when some asset succeeded
WriteIndexUnlessAllFailed ==
    /\ pc = "loop"
    /\ i > Len(symbols)
    /\ successful_updates # <<>>
    /\ index' = IndexData(successful_updates, now)
    /\ pc' = "done"
    /\ UNCHANGED <<symbols, files, now, tz, i, successful_updates,
                   failed_updates, log>>

\* lines 152-172: after the loop the index is written
WriteIndex ==
    /\ pc = "loop"
    /\ i > Len(symbols)
    /\ index' = IndexData(successful_updates, now)
    /\ pc' = "done"
    /\ UNCHANGED <<symbols, files, now, tz, i, successful_updates,
                   failed_updates, log>>

\* time passes
Tick ==
    /\ now + ClockStep < (MaxDay + 1) * SecondsPerDay
    /\ now' = now + ClockStep
    /\ UNCHANGED <<symbols, files, index, tz, pc, i, successful_updates,
                   failed_updates, log>>

\* one iteration of the for loop, lines 70-150
Iteration ==
    \/ UpToDate
    \/ DeltaUpdate
    \/ CorruptFullDownload
    \/ FullDownload

Next ==
    \/ StartRun
    \/ Iteration
    \/ WriteIndex
    \/ Tick

Spec == Init /\ [][Next]_vars

\* one run of the whole list at one instant; the loop and the index write are
\* sequential code that runs on once started
RunNext ==
    \/ (pc = "idle" /\ StartRun)
    \/ Iteration
    \/ WriteIndex

RunSpec ==
    RunInit /\ [][RunNext]_vars /\ WF_vars(Iteration) /\ WF_vars(WriteIndex)

(* ---- vocabulary of the properties ------------------------------------- *)
FileOf(symbol) == files[SYMBOL_TO_ID[symbol]]

Snapshot(file) == file.json[1]

\* the file holds a snapshot with at least one observation
IsSnapshot(file) == file.kind = "json" /\ Len(Snapshot(file).prices) > 0

\* data_points, prices and total_volumes agree in length, and the two lists
\* carry the same timestamp at every index
WellFormed(data) ==
    /\ data.data_points = Len(data.prices)
    /\ Len(data.prices) = Len(data.total_volumes)
    /\ \A k \in 1..Len(data.prices) : data.prices[k][1] = data.total_volumes[k][1]

StrictlyIncreasing(entries) ==
    \A k \in 1..(Len(entries) - 1) : entries[k][1] < entries[k + 1][1]

Reached(symbol) == log[symbol].state # "PENDING"

Succeeded(symbol) == log[symbol].state \in {"UP_TO_DATE", "UPDATED"}

Occurrences(list, x) == Cardinality({k \in 1..Len(list) : list[k] = x})

PositionOf(symbol) == CHOOSE k \in 1..Len(symbols) : symbols[k] = symbol

\* the file cannot be parsed, or it parses and has no last observation
Corrupt(file) ==
    \/ file.kind = "unparseable"
    \/ file.kind = "json" /\ Len(Snapshot(file).prices) = 0

\* the local calendar day of an instant (POSIX seconds) on this machine
LocalDay(seconds) == (seconds + tz) \div 86400

(* ---- C1 --------------------------------------------------------------- *)
\* C1: every snapshot file on disk, whether a FULL download built it or a
\* DELTA append extended it, after any sequence of runs, has
\* data_points = len(prices) = len(total_volumes), and prices[k] and
\* total_volumes[k] carry the same timestamp for every k.
C1_LengthsAndTimestampsAgree ==
    \A s \in SymbolsOf(symbols) :
        FileOf(s).kind = "json" => WellFormed(Snapshot(FileOf(s)))

\* a DELTA run appended rows to a snapshot of an earlier run and saved it
C1_Witness ==
    \E s \in SymbolsOf(symbols) :
        /\ log[s].state = "UPDATED"
        /\ log[s].mode = "DELTA"
        /\ IsSnapshot(log[s].before)
        /\ Len(Snapshot(FileOf(s)).prices) > Len(Snapshot(log[s].before).prices)

(* ---- C2 --------------------------------------------------------------- *)
\* C2: in every snapshot on disk, after any sequence of FULL and DELTA
\* updates, the timestamps of prices are strictly increasing (so none occurs
\* twice); every provider response is sorted ascending.
C2_TimestampsStrictlyIncreasing ==
    \A s \in SymbolsOf(symbols) :
        FileOf(s).kind = "json" => StrictlyIncreasing(Snapshot(FileOf(s)).prices)

(* ---- C3 --------------------------------------------------------------- *)
\* C3: a DELTA update of a snapshot whose last date is N > 0 days ago, for
\* which the provider returned N rows, leaves old_length + N entries in prices
\* and in total_volumes, the first old_length of them the original ones, and
\* symbol, crypto_id and earliest_date as they were.
C3_DeltaAppendsOnly ==
    \A s \in SymbolsOf(symbols) :
        (/\ log[s].mode = "DELTA"
         /\ ~log[s].out.raised
         /\ log[s].days_since[1] > 0
         /\ Len(log[s].out.hist) = log[s].days_since[1])
        => LET old == Snapshot(log[s].before)
               new == Snapshot(FileOf(s))
               n == log[s].days_since[1]
           IN  /\ FileOf(s).kind = "json"
               /\ Len(new.prices) = Len(old.prices) + n
               /\ Len(new.total_volumes) = Len(old.total_volumes) + n
               /\ SubSeq(new.prices, 1, Len(old.prices)) = old.prices
               /\ SubSeq(new.total_volumes, 1, Len(old.total_volumes))
                    = old.total_volumes
               /\ new.symbol = old.symbol
               /\ new.crypto_id = old.crypto_id
               /\ new.earliest_date = old.earliest_date

\* the last date was two days ago and the provider returned two rows
C3_Witness ==
    \E s \in SymbolsOf(symbols) :
        /\ log[s].mode = "DELTA"
        /\ ~log[s].out.raised
        /\ log[s].days_since = Some(2)
        /\ Len(log[s].out.hist) = 2
        /\ Len(Snapshot(FileOf(s)).prices) = 3

(* ---- C4 --------------------------------------------------------------- *)
\* C4: an asset's file is written only when the asset ends UPDATED, which
\* takes a fetch that returned at least one row without raising.  When the
\* last observation is dated today (NOOP, counted successful), when a DELTA
\* fetch returns no rows, and when the asset ends FAILED, the file is what
\* was loaded.
C4_FileWrittenOnlyWhenUpdated ==
    \A s \in SymbolsOf(symbols) :
        Reached(s) =>
            /\ log[s].state # "UPDATED" => FileOf(s) = log[s].before
            /\ log[s].state = "UPDATED" =>
                    ~log[s].out.raised /\ Len(log[s].out.hist) >= 1
            /\ log[s].mode = "NOOP" =>
                    /\ log[s].state = "UP_TO_DATE"
                    /\ Occurrences(successful_updates, s) = 1
            /\ (log[s].mode = "DELTA" /\ ~log[s].out.raised
                    /\ Len(log[s].out.hist) = 0) => log[s].state = "UP_TO_DATE"

\* the clock moved on after an asset was found up to date, and its file is
\* still the one loaded
C4_Witness ==
    \E s \in SymbolsOf(symbols) :
        /\ log[s].mode = "NOOP"
        /\ now > log[s].at
        /\ IsSnapshot(FileOf(s))
        /\ Snapshot(FileOf(s)).last_updated < log[s].at

C6_FailureIsolated ==
    /\ \A s \in SymbolsOf(symbols) :
          log[s].out.raised =>
              /\ log[s].state = "FAILED"
              /\ Occurrences(failed_updates, s) = 1
              /\ Occurrences(successful_updates, s) = 0
              /\ pc \in {"loop", "done"} /\ i > PositionOf(s)
    /\ pc = "done" =>
          \A s \in SymbolsOf(symbols) :
              /\ Reached(s)
              /\ Succeeded(s) => Occurrences(index.available_tokens, SYMBOL_TO_ID[s]) = 1
              /\ log[s].state = "FAILED" =>
                    Occurrences(index.available_tokens, SYMBOL_TO_ID[s]) = 0

\* the first asset's fetch raised, the second asset was updated after it, and
\* the index lists the second alone
C6_Witness ==
    /\ pc = "done"
    /\ log[symbols[1]].out.raised
    /\ log[symbols[2]].state = "UPDATED"
    /\ index.available_tokens = <<SYMBOL_TO_ID[symbols[2]]>>

(* ---- C7 --------------------------------------------------------------- *)
C7_OneTerminalState ==
    /\ \A s \in SymbolsOf(symbols) :
          /\ log[s].state \in {"PENDING", "UP_TO_DATE", "UPDATED", "FAILED"}
          /\ Occurrences(successful_updates, s)
                = (IF Succeeded(s) THEN 1 ELSE 0)
          /\ Occurrences(failed_updates, s)
                = (IF log[s].state = "FAILED" THEN 1 ELSE 0)
          /\ log[s].fetches <= 1
    /\ pc = "done" =>
          /\ index.written
          /\ \A s \in SymbolsOf(symbols) : Reached(s)

C7_TerminalStateIsFinal ==
    \A s \in SymbolsOf(symbols) :
        Reached(s) => (log'[s] = log[s] \/ (pc # "loop" /\ pc' = "loop"))

\* C7: every run completes.  Each asset leaves PENDING once, into one of
\* UP_TO_DATE, UPDATED and FAILED, which puts its symbol once in exactly one
\* of the two lists after at most one fetch; and a run that has entered the
\* loop reaches the end with the index written, whatever the outcomes.
C7_RunCompletes ==
    /\ []C7_OneTerminalState
    /\ [][C7_TerminalStateIsFinal]_vars
    /\ (pc = "loop") ~> (pc = "done" /\ index.written)

\* every asset failed and the index was written, listing nothing
C7_Witness ==
    /\ pc = "done"
    /\ \A s \in SymbolsOf(symbols) : log[s].state = "FAILED"
    /\ index.written
    /\ index.total_tokens = 0

(* ---- C8 --------------------------------------------------------------- *)
\* C8 as stated: after a run, available_tokens is the set of crypto ids whose
\* snapshot is on disk, and total_tokens is its number of entries.
C8_IndexListsSnapshotsOnDisk ==
    pc = "done" =>
        /\ {index.available_tokens[k] : k \in 1..Len(index.available_tokens)}
             = {id \in DOMAIN files : IsSnapshot(files[id])}
        /\ index.total_tokens = Len(index.available_tokens)

\* C8 as amended: after a run, available_tokens lists, once each and in list
\* order, the crypto ids of the assets that ended UP_TO_DATE or UPDATED in
\* this run; each of them has a parseable snapshot file on disk; an asset
\* that ended FAILED is not listed even when a snapshot of an earlier run is
\* still on disk; total_tokens is the number of entries.
C8_IndexListsSuccessfulAssets ==
    pc = "done" =>
        /\ {index.available_tokens[k] : k \in 1..Len(index.available_tokens)}
             = {SYMBOL_TO_ID[s] : s \in {t \in SymbolsOf(symbols) : Succeeded(t)}}
        /\ \A k, m \in 1..Len(index.available_tokens) :
              (k < m) =>
                  \E a, b \in 1..Len(symbols) :
                      /\ a < b
                      /\ index.available_tokens[k] = SYMBOL_TO_ID[symbols[a]]
                      /\ index.available_tokens[m] = SYMBOL_TO_ID[symbols[b]]
        /\ \A k \in 1..Len(index.available_tokens) :
              files[index.available_tokens[k]].kind = "json"
        /\ index.total_tokens = Len(index.available_tokens)

\* an asset with a snapshot of an earlier run failed and is not listed, next
\* to an asset that was updated and is
C8_Witness ==
    /\ pc = "done"
    /\ \E s, t \in SymbolsOf(symbols) :
          /\ log[s].state = "FAILED"
          /\ IsSnapshot(FileOf(s))
          /\ log[t].state = "UPDATED"
          /\ index.available_tokens = <<SYMBOL_TO_ID[t]>>

(* ---- C9 --------------------------------------------------------------- *)
\* C9: no prior snapshot gives FULL.  With a prior snapshot and d = today's
\* local calendar day minus the local calendar day of the last observation:
\* d = 0 gives NOOP without a fetch, d > 0 gives DELTA, and a DELTA fetch is
\* issued only when d > 0, from the calendar day after the last observation.
C9_ModeFromLastDate ==
    \A s \in SymbolsOf(symbols) :
        Reached(s) =>
            /\ log[s].before.kind = "absent" =>
                    log[s].mode = "FULL" /\ log[s].fetches = 1
            /\ IsSnapshot(log[s].before) =>
                LET prices == Snapshot(log[s].before).prices
                    last_day == LocalDay(prices[Len(prices)][1] \div 1000)
                    d == LocalDay(log[s].at) - last_day
                IN  /\ d = 0 => log[s].mode = "NOOP" /\ log[s].fetches = 0
                    /\ d > 0 => log[s].mode = "DELTA" /\ log[s].fetches = 1
                    /\ log[s].mode = "DELTA" =>
                          /\ d > 0
                          /\ log[s].start_date[1] \div 86400 = last_day + 1
                    /\ log[s].mode \in {"NOOP", "DELTA"}

\* away from UTC, a snapshot last observed two local days ago got a DELTA
\* fetch
C9_Witness ==
    \E s \in SymbolsOf(symbols) :
        /\ tz # 0
        /\ log[s].mode = "DELTA"
        /\ log[s].days_since = Some(2)

(* ---- C10 -------------------------------------------------------------- *)
\* C10: a FULL request that returns no rows ends FAILED with nothing written,
\* with no prior file and with a corrupt prior file alike; a DELTA request
\* that returns no rows ends successful and is not recorded as failed.
C10_EmptyResultByMode ==
    \A s \in SymbolsOf(symbols) :
        (Reached(s) /\ ~log[s].out.raised /\ log[s].fetches = 1
            /\ Len(log[s].out.hist) = 0) =>
            /\ log[s].mode = "FULL" =>
                  /\ log[s].state = "FAILED"
                  /\ Occurrences(failed_updates, s) = 1
                  /\ FileOf(s) = log[s].before
            /\ log[s].mode = "DELTA" =>
                  /\ Succeeded(s)
                  /\ Occurrences(successful_updates, s) = 1
                  /\ Occurrences(failed_updates, s) = 0
            /\ log[s].mode \in {"FULL", "DELTA"}

\* in one run a FULL request for a corrupt file and a DELTA request both
\* returned no rows: the first asset failed, the second succeeded
C10_Witness ==
    \E s, t \in SymbolsOf(symbols) :
        /\ log[s].mode = "FULL" /\ log[s].before.kind = "json"
        /\ ~log[s].out.raised /\ log[s].out.hist = <<>>
        /\ log[s].state = "FAILED"
        /\ log[t].mode = "DELTA"
        /\ ~log[t].out.raised /\ log[t].out.hist = <<>>
        /\ Succeeded(t)

====
